---- MODULE Spec2Model ----
\* Model of provider/grpc_client.go: the in-memory GRPCClient (ReadResource,
\* ImportResourceState, the getSchema helpers), the NopProvider it embeds,
\* decodeDynamicValue and grpcErr.
\*
\* Goroutines calling the client are the processes Procs.  Every call is cut
\* into steps at the points where another goroutine can interleave: taking the
\* mutex, the critical section of getSchema, the call of GetSchema, and the
\* call of the in-process server.  The server is an external collaborator: its
\* replies are inputs drawn from small sets.
EXTENDS Integers, Sequences, FiniteSets, TLC

\* ---------------------------------------------------------------------------
\* Bounds
\* ---------------------------------------------------------------------------
\* number of goroutines that call the client
NProcs == 2
\* total number of ReadResource / ImportResourceState calls in one behaviour
MaxCalls == 2

Procs == 1..NProcs

\* ---------------------------------------------------------------------------
\* cty values and types.  A schema block's ImpliedType is abstracted to one of
\* two cty types, so that decoding against the wrong type is observable.
\* ---------------------------------------------------------------------------
CtyTypes == {"string", "number"}

\* the zero cty.Value (a response field that was never assigned)
NilVal == [ty |-> "nil", null |-> TRUE, str |-> "", num |-> 0]
NullVal(ty) == [ty |-> ty, null |-> TRUE, str |-> "", num |-> 0]
StringVal(s) == [ty |-> "string", null |-> FALSE, str |-> s, num |-> 0]
NumberVal(n) == [ty |-> "number", null |-> FALSE, str |-> "", num |-> n]

\* error values; NoErr is the nil error.  code is what status.Code reports.
NoErr == [code |-> "OK", msg |-> ""]
PlainErr(m) == [code |-> "Unknown", msg |-> m]

\* the strings of the model and their UTF-8 bytes
StrBytes(s) ==
  CASE s = "" -> << >>
    [] s = "a" -> <<97>>
    [] s = "w1" -> <<119, 49>>
    [] s = "1" -> <<49>>
    [] OTHER -> <<63>>

BytesStr(b) ==
  CASE b = << >> -> ""
    [] b = <<97>> -> "a"
    [] b = <<119, 49>> -> "w1"
    [] b = <<49>> -> "1"
    [] OTHER -> "?"

\* ---------------------------------------------------------------------------
\* msgpack (github.com/zclconf/go-cty/cty/msgpack), on the values above:
\* nil is 0xc0, a number 0..127 a positive fixint, a string a fixstr
\* (0xa0 + length, then the bytes).
\* ---------------------------------------------------------------------------
\* a string written as its length and bytes, without the fixstr tag
msgpackMarshal_untagged(val, ty) ==
  IF val.ty # ty
    THEN [bytes |-> << >>, err |-> PlainErr("marshal: wrong type")]
    ELSE IF val.null
      THEN [bytes |-> <<192>>, err |-> NoErr]
      ELSE IF ty = "string"
        THEN [bytes |-> <<Len(StrBytes(val.str))>> \o StrBytes(val.str),
              err |-> NoErr]
        ELSE [bytes |-> <<val.num>>, err |-> NoErr]

\* msgpack.Marshal(val, ty): the value has to conform to the type.
msgpackMarshal(val, ty) ==
  IF val.ty # ty
    THEN [bytes |-> << >>, err |-> PlainErr("marshal: wrong type")]
    ELSE IF val.null
      THEN [bytes |-> <<192>>, err |-> NoErr]
      ELSE IF ty = "string"
        THEN [bytes |-> <<160 + Len(StrBytes(val.str))>> \o StrBytes(val.str),
              err |-> NoErr]
        ELSE [bytes |-> <<val.num>>, err |-> NoErr]

\* msgpack.Unmarshal(b, ty) for non-empty b.  On an error the value returned is
\* cty.DynamicVal in the library; the model writes NilVal for it.
msgpackUnmarshal(b, ty) ==
  LET bad == [val |-> NilVal, err |-> PlainErr("msgpack: decode error")] IN
  IF b[1] = 192
    THEN [val |-> NullVal(ty), err |-> NoErr]
    ELSE IF ty = "string"
      THEN IF b[1] >= 160 /\ b[1] <= 191
                /\ Len(b) >= 1 + (b[1] - 160)
             THEN [val |-> StringVal(BytesStr(SubSeq(b, 2, 1 + (b[1] - 160)))),
                   err |-> NoErr]
             ELSE bad
      ELSE IF b[1] <= 127
             THEN [val |-> NumberVal(b[1]), err |-> NoErr]
             ELSE bad

\* ---------------------------------------------------------------------------
\* JSON (github.com/zclconf/go-cty/cty/json), on the texts null, 1 and "a".
\* ---------------------------------------------------------------------------
JsonNull == <<110, 117, 108, 108>>
JsonOne == <<49>>
JsonStrA == <<34, 97, 34>>

ctyjsonUnmarshal(b, ty) ==
  LET bad == [val |-> NilVal, err |-> PlainErr("json: decode error")] IN
  IF b = JsonNull
    THEN [val |-> NullVal(ty), err |-> NoErr]
    ELSE IF ty = "string"
      THEN IF b = JsonStrA THEN [val |-> StringVal("a"), err |-> NoErr]
           ELSE IF b = JsonOne THEN [val |-> StringVal("1"), err |-> NoErr]
           ELSE bad
      ELSE IF b = JsonOne THEN [val |-> NumberVal(1), err |-> NoErr]
           ELSE bad

\* ---------------------------------------------------------------------------
\* tfprotov5.DynamicValue and decodeDynamicValue
\* ---------------------------------------------------------------------------
\* a nil *tfprotov5.DynamicValue
NilDV == [isNil |-> TRUE, MsgPack |-> << >>, JSON |-> << >>]
DV(mp, js) == [isNil |-> FALSE, MsgPack |-> mp, JSON |-> js]

\* the cases of the switch in the other order: JSON before MsgPack
decodeDynamicValue_jsonFirst(v, ty) ==
  IF v.isNil
    THEN [val |-> NullVal(ty), err |-> NoErr]
    ELSE IF Len(v.JSON) > 0
      THEN ctyjsonUnmarshal(v.JSON, ty)
      ELSE IF Len(v.MsgPack) > 0
        THEN msgpackUnmarshal(v.MsgPack, ty)
        ELSE [val |-> NullVal(ty), err |-> NoErr]

decodeDynamicValue(v, ty) ==
  IF v.isNil
    THEN [val |-> NullVal(ty), err |-> NoErr]
    ELSE IF Len(v.MsgPack) > 0
      THEN msgpackUnmarshal(v.MsgPack, ty)
      ELSE IF Len(v.JSON) > 0
        THEN ctyjsonUnmarshal(v.JSON, ty)
        ELSE [val |-> NullVal(ty), err |-> NoErr]

\* ---------------------------------------------------------------------------
\* tfdiags.Diagnostics
\* ---------------------------------------------------------------------------
\* diags.Append(err) for a non-nil error: one error diagnostic, the error's
\* text as its summary.
ErrDiag(err) == [severity |-> "Error", summary |-> err.msg, detail |-> ""]
Sourceless(sev, summary, detail) ==
  [severity |-> sev, summary |-> summary, detail |-> detail]

HasErrors(diags) == \E i \in 1..Len(diags) : diags[i].severity = "Error"

\* the name grpcErr finds for its caller: the last path segment of the
\* function name, e.g. provider.(*GRPCClient).ReadResource
RequestName(method) == "provider.(*GRPCClient)." \o method

\* every error reported as a plugin error, whatever its status code
grpcErr_defaultOnly(err, method, callerOk) ==
  IF err = NoErr THEN << >>
  ELSE <<Sourceless("Error", "Plugin error",
           "The plugin returned an unexpected error from "
           \o RequestName(method) \o ": " \o err.msg)>>

\* grpcErr(err), called from the client's method `method`; callerOk is the ok
\* of runtime.Caller(1).
grpcErr(err, method, callerOk) ==
  IF err = NoErr THEN << >>
  ELSE IF ~callerOk THEN <<ErrDiag(err)>>
  ELSE CASE err.code = "Unavailable" ->
              <<Sourceless("Error", "Plugin did not respond",
                  "The plugin encountered an error, and failed to respond to the "
                  \o RequestName(method)
                  \o " call. The plugin logs may contain more details.")>>
         [] err.code = "Canceled" ->
              <<Sourceless("Error", "Request cancelled",
                  "The " \o RequestName(method) \o " request was cancelled.")>>
         [] err.code = "Unimplemented" ->
              <<Sourceless("Error", "Unsupported plugin method",
                  "The " \o RequestName(method)
                  \o " method is not supported by this plugin.")>>
         [] OTHER ->
              <<Sourceless("Error", "Plugin error",
                  "The plugin returned an unexpected error from "
                  \o RequestName(method) \o ": " \o err.msg)>>

\* ---------------------------------------------------------------------------
\* Schemas
\* ---------------------------------------------------------------------------
\* a nil *configschema.Block, and a block with its implied type
NoBlock == [isNil |-> TRUE, implied |-> "nil"]
Block(ty) == [isNil |-> FALSE, implied |-> ty]
ImpliedType(b) == b.implied

\* providers.Schema
Schema(b) == [Block |-> b]

\* a nil map[string]providers.Schema
NoResourceTypes == [n \in {} |-> Schema(NoBlock)]

\* providers.GetSchemaResponse{}
ZeroGetSchemaResponse ==
  [Provider |-> Schema(NoBlock), ProviderMeta |-> Schema(NoBlock),
   ResourceTypes |-> NoResourceTypes, Diagnostics |-> << >>]

\* NopProvider.GetSchema, which is what c.GetSchema() resolves to: GRPCClient
\* embeds NopProvider and defines no GetSchema of its own.
GetSchema == ZeroGetSchemaResponse

\* The resources of the provider handed to NewGRPCClient.
TypeNames == {"widget", "gadget", "ghost"}
ProviderResourceTypes ==
  [n \in {"widget", "gadget"} |->
     Schema(Block(IF n = "widget" THEN "string" ELSE "number"))]

\* a snapshot of that provider's schema, with or without a provider-meta block
ProviderSnapshot(metaBlock) ==
  [Provider |-> Schema(Block("string")), ProviderMeta |-> Schema(metaBlock),
   ResourceTypes |-> ProviderResourceTypes, Diagnostics |-> << >>]

\* The values c.schemas can hold when the first call arrives.  NewGRPCClient
\* leaves the field zero and nothing in grpc_client.go assigns it; getSchema's
\* first branch reads it and its comment expects it to have been fetched
\* already, so a snapshot stored beforehand is part of the inputs.
StoredSnapshots ==
  {ZeroGetSchemaResponse, ProviderSnapshot(NoBlock), ProviderSnapshot(Block("string"))}

\* ---------------------------------------------------------------------------
\* Requests of the callers and replies of the server
\* ---------------------------------------------------------------------------
Nothing == [kind |-> "nothing"]
\* no operation of NopProvider called yet, no function under evaluation
NoCall == [op |-> "none"]
NoRequest == [op |-> "none"]

ReadRequests ==
  {[op |-> "ReadResource", TypeName |-> n, PriorState |-> v, ProviderMeta |-> m,
    Private |-> b] :
     n \in TypeNames, v \in {StringVal("w1"), NumberVal(3), NullVal("string")},
     m \in {StringVal("a"), NumberVal(1)}, b \in {<< >>, <<7>>}}

ImportRequests ==
  {[op |-> "ImportResourceState", TypeName |-> n, ID |-> "id1"] :
     n \in {"widget", "gadget"}}

TransportErrors ==
  {[code |-> "Unavailable", msg |-> "rpc error: code = Unavailable"],
   [code |-> "Canceled", msg |-> "rpc error: code = Canceled"],
   [code |-> "Unimplemented", msg |-> "rpc error: code = Unimplemented"],
   [code |-> "Internal", msg |-> "rpc error: code = Internal"],
   PlainErr("boom")}

\* tfprotov5.Diagnostic
ProtoDiag(sev, summary) == [Severity |-> sev, Summary |-> summary, Detail |-> "detail"]
ProtoDiagSeqs ==
  {<< >>, <<ProtoDiag("WARNING", "deprecated")>>,
   <<ProtoDiag("WARNING", "deprecated"), ProtoDiag("ERROR", "denied")>>}

\* the encoded states the server hands back
ServerStates ==
  {NilDV, DV(<< >>, << >>), DV(<<192>>, << >>), DV(<<162, 119, 49>>, << >>),
   DV(<<4>>, << >>), DV(<<193>>, << >>), DV(<< >>, JsonNull), DV(<< >>, JsonOne),
   DV(<< >>, JsonStrA), DV(<<4>>, <<123>>), DV(<<193>>, JsonOne), DV(<< >>, <<123>>)}

ReadReplies ==
  {[err |-> e] : e \in TransportErrors}
  \cup {[err |-> NoErr, Diagnostics |-> d, NewState |-> sv, Private |-> b] :
          d \in ProtoDiagSeqs, sv \in ServerStates, b \in {<< >>, <<8>>}}

\* tfprotov5.ImportedResource
ImportedEntries ==
  {[TypeName |-> "widget", State |-> DV(<<162, 119, 49>>, << >>), Private |-> <<9>>],
   [TypeName |-> "gadget", State |-> DV(<<4>>, << >>), Private |-> << >>],
   [TypeName |-> "gadget", State |-> DV(<<161, 97>>, << >>), Private |-> <<9>>],
   [TypeName |-> "ghost", State |-> NilDV, Private |-> << >>]}

\* longest list of imported resources in a reply
MaxEntries == 2

EntrySeqs == UNION {[1..n -> ImportedEntries] : n \in 0..MaxEntries}

ImportReplies ==
  {[err |-> e] : e \in TransportErrors}
  \cup {[err |-> NoErr, Diagnostics |-> d, ImportedResources |-> es] :
          d \in ProtoDiagSeqs, es \in EntrySeqs}

\* ---------------------------------------------------------------------------
\* State
\* ---------------------------------------------------------------------------
VARIABLES
  schemas,     \* c.schemas
  mu,          \* c.mu: 0 when free, else the goroutine that holds it
  frame,       \* per goroutine: the position and the locals of its call
  fetchCount,  \* history: number of invocations of GetSchema
  gsResults,   \* history: the snapshots getSchema calls have returned
  ncalls,      \* history: number of calls started
  served,      \* history: the operations of the server invoked so far
  nop,         \* the last operation of NopProvider called, and its result
  pure         \* the function under evaluation: its inputs and its result

vars == <<schemas, mu, frame, fetchCount, gsResults, ncalls, served, nop, pure>>

ZeroReadResponse == [Diagnostics |-> << >>, NewState |-> NilVal, Private |-> << >>]
ZeroImportResponse == [Diagnostics |-> << >>, ImportedResources |-> << >>]

\* pc: idle, getSchema_lock, getSchema_locked, getSchema_fetch, done, panicked
\* caller: the call site getSchema returns to
\* r: the request; resp: the named result; protoReq, protoResp: what went to
\* and came from the server (Nothing while the server has not been invoked)
\* fetched: the local `schemas` of getSchema; schema: the local `schema` of
\* getResourceSchema and getProviderMetaSchema
IdleFrame ==
  [pc |-> "idle", caller |-> "", r |-> NoRequest,
   fetched |-> Nothing, schema |-> Nothing,
   resSchema |-> Schema(NoBlock), metaSchema |-> Schema(NoBlock),
   protoReq |-> Nothing, protoResp |-> Nothing, resp |-> Nothing,
   idx |-> 0, decodeErr |-> NoErr, panic |-> ""]

\* the new diagnostic put in front of the ones already there
AppendErr_prepend(diags, err) == <<ErrDiag(err)>> \o diags

\* resp.Diagnostics.Append(err)
AppendErr(diags, err) == Append(diags, ErrDiag(err))

\* for _, d := range protoResp.Diagnostics { Append(errors.New(d.Summary)) }
AppendProtoDiags(diags, pds) ==
  diags \o [i \in 1..Len(pds) |-> ErrDiag(PlainErr(pds[i].Summary))]

Panic(f, msg) == [f EXCEPT !.pc = "panicked", !.caller = "", !.panic = msg]

\* ---------------------------------------------------------------------------
\* getResourceSchema and getProviderMetaSchema, given what getSchema returned
\* ---------------------------------------------------------------------------
\* a lookup that yields the map's zero value instead of halting
getResourceSchema_zeroValue(schema, name) ==
  IF name \in DOMAIN schema.ResourceTypes
    THEN [panic |-> FALSE, schema |-> schema.ResourceTypes[name]]
    ELSE [panic |-> FALSE, schema |-> Schema(NoBlock)]

getResourceSchema(schema, name) ==
  IF name \in DOMAIN schema.ResourceTypes
    THEN [panic |-> FALSE, schema |-> schema.ResourceTypes[name]]
    ELSE [panic |-> TRUE, schema |-> Schema(NoBlock)]

getProviderMetaSchema(schema) == schema.ProviderMeta

\* ---------------------------------------------------------------------------
\* ReadResource
\* ---------------------------------------------------------------------------
\* the server's read invoked at the entry, ahead of the schema lookups
ReadResource_begin_serverFirst(r) ==
  [IdleFrame EXCEPT !.pc = "getSchema_lock",
                    !.caller = "ReadResource.getResourceSchema",
                    !.r = r, !.resp = ZeroReadResponse,
                    !.protoReq = [TypeName |-> r.TypeName, CurrentState |-> NilDV,
                                  Private |-> r.Private, ProviderMeta |-> NilDV],
                    !.protoResp = [err |-> PlainErr("early")]]

\* entry: the call of getResourceSchema(r.TypeName), up to getSchema's Lock
ReadResource_begin(r) ==
  [IdleFrame EXCEPT !.pc = "getSchema_lock",
                    !.caller = "ReadResource.getResourceSchema",
                    !.r = r, !.resp = ZeroReadResponse]

\* getResourceSchema returns; then the call of getProviderMetaSchema
ReadResource_resSchema(f, schema) ==
  LET l == getResourceSchema(schema, f.r.TypeName) IN
  IF l.panic
    THEN Panic([f EXCEPT !.schema = schema], "unknown resource type " \o f.r.TypeName)
    ELSE [f EXCEPT !.resSchema = l.schema, !.schema = schema,
                   !.caller = "ReadResource.getProviderMetaSchema",
                   !.pc = "getSchema_lock"]

\* a request that always carries a provider-meta value
ReadResource_providerMeta_always(metaSchema, meta) ==
  IF ~metaSchema.Block.isNil
    THEN LET m == msgpackMarshal(meta, ImpliedType(metaSchema.Block)) IN
         [set |-> m.err = NoErr, dv |-> DV(m.bytes, << >>), err |-> m.err]
    ELSE [set |-> TRUE, dv |-> DV(<<192>>, << >>), err |-> NoErr]

\* the provider-meta part of the outgoing request
ReadResource_providerMeta(metaSchema, meta) ==
  IF ~metaSchema.Block.isNil
    THEN LET m == msgpackMarshal(meta, ImpliedType(metaSchema.Block)) IN
         [set |-> m.err = NoErr, dv |-> DV(m.bytes, << >>), err |-> m.err]
    ELSE [set |-> FALSE, dv |-> NilDV, err |-> NoErr]

\* the transport error appended as it is, without grpcErr
ReadResource_transportError_raw(resp, err) ==
  [resp EXCEPT !.Diagnostics = AppendErr(@, err)]

\* the transport error of the server's ReadResource
ReadResource_transportError(resp, err) ==
  [resp EXCEPT !.Diagnostics = @ \o grpcErr(err, "ReadResource", TRUE)]

\* the private blob of the reply lost on the way back
ReadResource_private_dropped(protoResp) == << >>

\* resp.Private = protoResp.Private
ReadResource_private(protoResp) == protoResp.Private

\* getProviderMetaSchema returns; encoding, the server's call (its reply is
\* `reply`) and decoding
ReadResource_rest(f, schema, reply) ==
  LET metaSchema == getProviderMetaSchema(schema)
      f1 == [f EXCEPT !.metaSchema = metaSchema, !.schema = schema,
                      !.pc = "done", !.caller = ""]
      mp == msgpackMarshal(f.r.PriorState, ImpliedType(f.resSchema.Block))
      meta == ReadResource_providerMeta(metaSchema, f.r.ProviderMeta)
      protoReq == [TypeName |-> f.r.TypeName,
                   CurrentState |-> DV(mp.bytes, << >>),
                   Private |-> f.r.Private,
                   ProviderMeta |-> IF meta.set THEN meta.dv ELSE NilDV]
      f2 == [f1 EXCEPT !.protoReq = protoReq, !.protoResp = reply]
  IN
  IF mp.err # NoErr
    THEN [f1 EXCEPT !.resp.Diagnostics = AppendErr(@, mp.err)]
  ELSE IF meta.err # NoErr
    THEN [f1 EXCEPT !.resp.Diagnostics = AppendErr(@, meta.err)]
  ELSE IF reply.err # NoErr
    THEN [f2 EXCEPT !.resp = ReadResource_transportError(@, reply.err)]
  ELSE
    LET diags == AppendProtoDiags(f.resp.Diagnostics, reply.Diagnostics)
        st == decodeDynamicValue(reply.NewState, ImpliedType(f.resSchema.Block))
    IN
    IF st.err # NoErr
      THEN [f2 EXCEPT !.resp.Diagnostics = AppendErr(diags, st.err),
                      !.decodeErr = st.err]
      ELSE [f2 EXCEPT !.resp = [Diagnostics |-> diags, NewState |-> st.val,
                                Private |-> ReadResource_private(reply)]]

\* ---------------------------------------------------------------------------
\* ImportResourceState
\* ---------------------------------------------------------------------------
\* an import that imported nothing reported as an error
ImportResourceState_loop_emptyIsError(f) ==
  IF f.idx > Len(f.protoResp.ImportedResources)
    THEN IF f.resp.ImportedResources = << >>
           THEN [f EXCEPT !.pc = "done", !.caller = "",
                          !.resp.Diagnostics =
                            Append(@, ErrDiag(PlainErr("nothing imported")))]
           ELSE [f EXCEPT !.pc = "done", !.caller = ""]
    ELSE [f EXCEPT !.pc = "getSchema_lock",
                   !.caller = "ImportResourceState.getResourceSchema"]

\* the head of the loop over protoResp.ImportedResources
ImportResourceState_loop(f) ==
  IF f.idx > Len(f.protoResp.ImportedResources)
    THEN [f EXCEPT !.pc = "done", !.caller = ""]
    ELSE [f EXCEPT !.pc = "getSchema_lock",
                   !.caller = "ImportResourceState.getResourceSchema"]

\* entry: the request, the server's call (its reply is `reply`), the transport
\* error and the protocol diagnostics
ImportResourceState_begin(r, reply) ==
  LET f0 == [IdleFrame EXCEPT !.r = r, !.resp = ZeroImportResponse,
                              !.protoReq = [TypeName |-> r.TypeName, ID |-> r.ID],
                              !.protoResp = reply]
  IN
  IF reply.err # NoErr
    THEN [f0 EXCEPT !.pc = "done",
                    !.resp.Diagnostics = @ \o grpcErr(reply.err, "ImportResourceState", TRUE)]
    ELSE ImportResourceState_loop(
           [f0 EXCEPT !.resp.Diagnostics = AppendProtoDiags(@, reply.Diagnostics),
                      !.idx = 1])

\* the type name of the request instead of the entry's
ImportResourceState_typeName_request(r, imported) == r.TypeName

\* resource.TypeName: the type name of the imported entry itself
ImportResourceState_typeName(r, imported) == imported.TypeName

\* the body of the loop once getSchema has returned inside getResourceSchema
ImportResourceState_entry(f0, schema) ==
  LET f == [f0 EXCEPT !.schema = schema]
      imported == f.protoResp.ImportedResources[f.idx]
      resource == [TypeName |-> ImportResourceState_typeName(f.r, imported),
                   Private |-> imported.Private, State |-> NilVal]
      l == getResourceSchema(schema, resource.TypeName)
      st == decodeDynamicValue(imported.State, ImpliedType(l.schema.Block))
  IN
  IF l.panic
    THEN Panic(f, "unknown resource type " \o resource.TypeName)
  ELSE IF st.err # NoErr
    THEN [f EXCEPT !.pc = "done", !.caller = "", !.resSchema = l.schema,
                   !.resp.Diagnostics = AppendErr(@, st.err),
                   !.decodeErr = st.err]
  ELSE ImportResourceState_loop(
         [f EXCEPT !.resSchema = l.schema,
                   !.resp.ImportedResources = Append(@, [resource EXCEPT !.State = st.val]),
                   !.idx = @ + 1])

\* ---------------------------------------------------------------------------
\* getSchema
\* ---------------------------------------------------------------------------
\* the mutex kept while getSchema goes on
Unlock_missing(p) == p

\* c.mu.Unlock()
Unlock(p) == 0

\* errors of the fetch ignored
getSchema_fatal_never(fetched) == FALSE

\* if schemas.Diagnostics.HasErrors() { panic(...) }
getSchema_fatal(fetched) == HasErrors(fetched.Diagnostics)

\* the resource schema kept where the calls in flight share it: the rest of
\* ReadResource finds the one another goroutine left there
getSchema_return_sharedSchema(p, schema, replies) ==
  /\ gsResults' = gsResults \cup {schema}
  /\ \/ /\ frame[p].caller = "ReadResource.getResourceSchema"
        /\ frame' = [frame EXCEPT ![p] = ReadResource_resSchema(frame[p], schema)]
        /\ UNCHANGED served
     \/ /\ frame[p].caller = "ReadResource.getProviderMetaSchema"
        /\ \E reply \in replies : \E q \in Procs :
             frame' = [frame EXCEPT ![p] =
                         ReadResource_rest([frame[p] EXCEPT !.resSchema = frame[q].resSchema],
                                           schema, reply)]
        /\ served' = IF frame'[p].protoResp # Nothing
                       THEN served \cup {"ReadResource"} ELSE served
     \/ /\ frame[p].caller = "ImportResourceState.getResourceSchema"
        /\ frame' = [frame EXCEPT ![p] = ImportResourceState_entry(frame[p], schema)]
        /\ UNCHANGED served

\* getSchema returns `schema` to goroutine p, which goes on to the next point
\* where it can be interleaved
getSchema_return(p, schema, replies) ==
  /\ gsResults' = gsResults \cup {schema}
  /\ \/ /\ frame[p].caller = "ReadResource.getResourceSchema"
        /\ frame' = [frame EXCEPT ![p] = ReadResource_resSchema(frame[p], schema)]
        /\ UNCHANGED served
     \/ /\ frame[p].caller = "ReadResource.getProviderMetaSchema"
        /\ \E reply \in replies :
             frame' = [frame EXCEPT ![p] = ReadResource_rest(frame[p], schema, reply)]
        /\ served' = IF frame'[p].protoResp # Nothing
                       THEN served \cup {"ReadResource"} ELSE served
     \/ /\ frame[p].caller = "ImportResourceState.getResourceSchema"
        /\ frame' = [frame EXCEPT ![p] = ImportResourceState_entry(frame[p], schema)]
        /\ UNCHANGED served

\* c.mu.Lock()
getSchema_Lock(p) ==
  /\ frame[p].pc = "getSchema_lock"
  /\ mu = 0
  /\ mu' = p
  /\ frame' = [frame EXCEPT ![p].pc = "getSchema_locked"]
  /\ UNCHANGED <<schemas, fetchCount, gsResults, ncalls, served, nop, pure>>

\* the snapshot is stored: unlock and return c.schemas
getSchema_Stored(p, replies) ==
  /\ frame[p].pc = "getSchema_locked"
  /\ ~schemas.Provider.Block.isNil
  /\ mu' = Unlock(p)
  /\ getSchema_return(p, schemas, replies)
  /\ UNCHANGED <<schemas, fetchCount, ncalls, nop, pure>>

\* the snapshot is not stored: unlock, GetSchema is called next
getSchema_Missing(p) ==
  /\ frame[p].pc = "getSchema_locked"
  /\ schemas.Provider.Block.isNil
  /\ mu' = Unlock(p)
  /\ frame' = [frame EXCEPT ![p].pc = "getSchema_fetch"]
  /\ UNCHANGED <<schemas, fetchCount, gsResults, ncalls, served, nop, pure>>

\* schemas := c.GetSchema() has returned `fetched`: panic or return it
getSchema_fetched(p, fetched, replies) ==
  /\ frame[p].pc = "getSchema_fetch"
  /\ fetchCount' = fetchCount + 1
  /\ IF getSchema_fatal(fetched)
       THEN /\ frame' = [frame EXCEPT ![p] =
                           Panic([frame[p] EXCEPT !.fetched = fetched], "schema error")]
            /\ UNCHANGED <<gsResults, served>>
       ELSE getSchema_return(p, fetched, replies)
  /\ UNCHANGED <<schemas, mu, ncalls, nop, pure>>

\* `fetches` is what c.GetSchema() can return: GetSchema alone in this source
getSchema_Fetch(p, fetches, replies) ==
  \E fetched \in fetches : getSchema_fetched(p, fetched, replies)

\* ---------------------------------------------------------------------------
\* The callers
\* ---------------------------------------------------------------------------
ReadResource(p, r) ==
  /\ frame[p].pc = "idle"
  /\ ncalls < MaxCalls
  /\ ncalls' = ncalls + 1
  /\ frame' = [frame EXCEPT ![p] = ReadResource_begin(r)]
  /\ UNCHANGED <<schemas, mu, fetchCount, gsResults, served, nop, pure>>

ImportResourceState(p, r, reply) ==
  /\ frame[p].pc = "idle"
  /\ ncalls < MaxCalls
  /\ ncalls' = ncalls + 1
  /\ frame' = [frame EXCEPT ![p] = ImportResourceState_begin(r, reply)]
  /\ served' = served \cup {"ImportResourceState"}
  /\ UNCHANGED <<schemas, mu, fetchCount, gsResults, nop, pure>>

\* the caller has taken the response and is free to call again
Returned(p) ==
  /\ frame[p].pc = "done"
  /\ ncalls < MaxCalls
  /\ frame' = [frame EXCEPT ![p] = IdleFrame]
  /\ UNCHANGED <<schemas, mu, fetchCount, gsResults, ncalls, served, nop, pure>>

Init ==
  /\ schemas \in StoredSnapshots
  /\ mu = 0
  /\ frame = [p \in Procs |-> IdleFrame]
  /\ fetchCount = 0
  /\ gsResults = {}
  /\ ncalls = 0
  /\ served = {}
  /\ nop = NoCall
  /\ pure = NoCall

\* One step of goroutine p, with the inputs `in`: the requests callers make,
\* the replies the server gives and the results of c.GetSchema().
Step(p, in) ==
  \/ \E r \in in.readRequests : ReadResource(p, r)
  \/ \E r \in in.importRequests : \E reply \in in.importReplies :
       ImportResourceState(p, r, reply)
  \/ getSchema_Lock(p)
  \/ getSchema_Stored(p, in.readReplies)
  \/ getSchema_Missing(p)
  \/ getSchema_Fetch(p, in.fetches, in.readReplies)
  \/ Returned(p)

\* ---------------------------------------------------------------------------
\* Spec: all goroutines call the client concurrently, each call with one of a
\* few requests and replies (what the goroutines share is the mutex and
\* c.schemas, not the payloads).
\* ---------------------------------------------------------------------------
ConcurrentInputs ==
  [readRequests |->
     {r \in ReadRequests : /\ r.TypeName \in {"widget", "ghost"}
                           /\ r.PriorState = StringVal("w1")
                           /\ r.ProviderMeta = StringVal("a")
                           /\ r.Private = <<7>>},
   readReplies |->
     {rp \in ReadReplies : \/ rp.err.code = "Unavailable"
                           \/ /\ rp.err = NoErr
                              /\ rp.Diagnostics = << >>
                              /\ rp.NewState = DV(<<162, 119, 49>>, << >>)
                              /\ rp.Private = <<8>>},
   importRequests |-> {r \in ImportRequests : r.TypeName = "widget"},
   importReplies |->
     {rp \in ImportReplies : \/ rp.err.code = "Unavailable"
                             \/ /\ rp.err = NoErr
                                /\ rp.Diagnostics = << >>
                                /\ Len(rp.ImportedResources) <= 2
                                /\ \A i \in 1..Len(rp.ImportedResources) :
                                     /\ rp.ImportedResources[i].TypeName # "ghost"
                                     /\ rp.ImportedResources[i].Private = <<9>>},
   fetches |-> {GetSchema}]

Next == \E p \in Procs : Step(p, ConcurrentInputs)

Spec == Init /\ [][Next]_vars

\* FairSpec: the scheduler runs every goroutine that can take a step, and
\* sync.Mutex hands the mutex to a goroutine that keeps waiting for it
\* (starvation mode), hence strong fairness for Lock.
FairSpec ==
  /\ Spec
  /\ \A p \in Procs :
       /\ SF_vars(getSchema_Lock(p))
       /\ WF_vars(getSchema_Stored(p, ConcurrentInputs.readReplies))
       /\ WF_vars(getSchema_Missing(p))
       /\ WF_vars(getSchema_Fetch(p, ConcurrentInputs.fetches, ConcurrentInputs.readReplies))

\* ---------------------------------------------------------------------------
\* SpecCall: one goroutine makes its calls one after the other, with every
\* request and every reply of the input sets.
\* ---------------------------------------------------------------------------
Caller == CHOOSE p \in Procs : \A q \in Procs : p <= q

CallInputs ==
  [readRequests |-> ReadRequests, readReplies |-> ReadReplies,
   importRequests |-> ImportRequests, importReplies |-> ImportReplies,
   fetches |-> {GetSchema}]

NextCall == Step(Caller, CallInputs)

SpecCall == Init /\ [][NextCall]_vars

\* ---------------------------------------------------------------------------
\* SpecStub: SpecCall with the schema-retrieval operation replaced by a stub
\* that reports what a provider can report: nothing (NopProvider), a snapshot
\* with an error diagnostic, a snapshot with a warning only.
\* ---------------------------------------------------------------------------
StubResponses ==
  {GetSchema,
   [ProviderSnapshot(NoBlock) EXCEPT
      !.Diagnostics = <<Sourceless("Error", "schema unavailable", "")>>],
   [ProviderSnapshot(NoBlock) EXCEPT
      !.Diagnostics = <<Sourceless("Warning", "deprecated", "")>>]}

StubInputs == [CallInputs EXCEPT !.fetches = StubResponses]

NextStub == Step(Caller, StubInputs)

SpecStub == Init /\ [][NextStub]_vars

\* ---------------------------------------------------------------------------
\* NopProvider.  GRPCClient embeds it: every method below except ReadResource
\* and ImportResourceState is also the method of that name of the client.
\* ---------------------------------------------------------------------------
NopProviderOps ==
  {"GetSchema", "PrepareProviderConfig", "ValidateResourceTypeConfig",
   "ValidateDataSourceConfig", "UpgradeResourceState", "Configure", "Stop",
   "ReadResource", "PlanResourceChange", "ApplyResourceChange",
   "ImportResourceState", "ReadDataSource", "Close"}

\* the methods without a request
NopProviderNoRequest == {"GetSchema", "Stop", "Close"}

\* the requests of the other methods, reduced to the type they are about
NopProviderRequests(op) ==
  IF op \in NopProviderNoRequest
    THEN {NoRequest}
    ELSE {[op |-> op, TypeName |-> n] : n \in {"widget", "ghost"}}

\* every method answering that it is not supported
NopProvider_unsupported(op, req) ==
  IF op \in {"Stop", "Close"}
    THEN PlainErr("unsupported")
    ELSE [Diagnostics |-> <<ErrDiag(PlainErr("unsupported"))>>]

\* what the method `op` of NopProvider returns for the request `req`: the zero
\* value of its response type, nil for Stop and Close
NopProvider(op, req) ==
  CASE op = "GetSchema" -> GetSchema
    [] op = "PrepareProviderConfig" ->
         [PreparedConfig |-> NilVal, Diagnostics |-> << >>]
    [] op = "ValidateResourceTypeConfig" -> [Diagnostics |-> << >>]
    [] op = "ValidateDataSourceConfig" -> [Diagnostics |-> << >>]
    [] op = "UpgradeResourceState" ->
         [UpgradedState |-> NilVal, Diagnostics |-> << >>]
    [] op = "Configure" -> [Diagnostics |-> << >>]
    [] op = "Stop" -> NoErr
    [] op = "ReadResource" -> ZeroReadResponse
    [] op = "PlanResourceChange" ->
         [PlannedState |-> NilVal, RequiresReplace |-> << >>,
          PlannedPrivate |-> << >>, Diagnostics |-> << >>,
          LegacyTypeSystem |-> FALSE]
    [] op = "ApplyResourceChange" ->
         [NewState |-> NilVal, Private |-> << >>, Diagnostics |-> << >>,
          LegacyTypeSystem |-> FALSE]
    [] op = "ImportResourceState" -> ZeroImportResponse
    [] op = "ReadDataSource" -> [State |-> NilVal, Diagnostics |-> << >>]
    [] op = "Close" -> NoErr

\* a goroutine calls the method `op` and gets its result; no goroutine of
\* Procs is involved, whatever its position
NopProvider_call(op, req) ==
  /\ nop' = [op |-> op, req |-> req, resp |-> NopProvider(op, req)]
  /\ UNCHANGED <<schemas, mu, frame, fetchCount, gsResults, ncalls, served, pure>>

\* ---------------------------------------------------------------------------
\* SpecNop: one goroutine makes its ReadResource and ImportResourceState calls
\* while the methods of NopProvider are called at any moment.
\* ---------------------------------------------------------------------------
NextNop ==
  \/ Step(Caller, ConcurrentInputs)
  \/ \E op \in NopProviderOps : \E req \in NopProviderRequests(op) :
       NopProvider_call(op, req)

SpecNop == Init /\ [][NextNop]_vars

\* ---------------------------------------------------------------------------
\* SpecPure: grpcErr, decodeDynamicValue and the encoding of ReadResource,
\* each applied to one input drawn from the sets below.
\* ---------------------------------------------------------------------------
\* the methods of the client that call grpcErr
GrpcErrMethods == {"ReadResource", "ImportResourceState"}

\* nil, the transport errors, and two more errors that share a status code
\* with one of them
GrpcErrErrors ==
  {NoErr} \cup TransportErrors
  \cup {PlainErr("bang"), [code |-> "Internal", msg |-> "rpc error: code = Internal desc = x"]}

MsgPackTexts == {<< >>, <<192>>, <<162, 119, 49>>, <<161, 97>>, <<160>>, <<4>>, <<193>>}
JsonTexts == {<< >>, JsonNull, JsonOne, JsonStrA, <<123>>}
DynamicValues == {NilDV} \cup {DV(mp, js) : mp \in MsgPackTexts, js \in JsonTexts}

\* the values handed to msgpack.Marshal
CtyValues ==
  {StringVal(str) : str \in {"", "a", "w1", "1"}}
  \cup {NumberVal(n) : n \in {0, 1, 3, 127}}
  \cup {NullVal(ty) : ty \in CtyTypes}

\* done: the function has returned `out`; `of` is the value whose encoding v
\* is, Nothing when v is not an encoding
PureCalls ==
  {[op |-> "grpcErr", err |-> e, method |-> m, done |-> FALSE,
    out |-> Nothing] :
     e \in GrpcErrErrors, m \in GrpcErrMethods}
  \cup {[op |-> "decodeDynamicValue", v |-> v, ty |-> ty, of |-> Nothing,
          done |-> FALSE, out |-> Nothing] : v \in DynamicValues, ty \in CtyTypes}
  \cup {[op |-> "msgpack.Marshal", val |-> val, ty |-> ty, done |-> FALSE,
          out |-> Nothing] :
          val \in CtyValues, ty \in CtyTypes}

InitPure ==
  /\ schemas = ZeroGetSchemaResponse
  /\ mu = 0
  /\ frame = [p \in Procs |-> IdleFrame]
  /\ fetchCount = 0
  /\ gsResults = {}
  /\ ncalls = 0
  /\ served = {}
  /\ nop = NoCall
  /\ pure \in PureCalls

adapter == <<schemas, mu, frame, fetchCount, gsResults, ncalls, served>>

\* grpcErr(err) called from `method`; runtime.Caller(1) finds that method
grpcErr_eval ==
  /\ pure.op = "grpcErr"
  /\ ~pure.done
  /\ pure' = [pure EXCEPT !.done = TRUE, !.out = grpcErr(pure.err, pure.method, TRUE)]
  /\ UNCHANGED <<adapter, nop>>

decodeDynamicValue_eval ==
  /\ pure.op = "decodeDynamicValue"
  /\ ~pure.done
  /\ pure' = [pure EXCEPT !.done = TRUE, !.out = decodeDynamicValue(pure.v, pure.ty)]
  /\ UNCHANGED <<adapter, nop>>

\* mp, err := msgpack.Marshal(r.PriorState, resSchema.Block.ImpliedType())
msgpackMarshal_eval ==
  /\ pure.op = "msgpack.Marshal"
  /\ ~pure.done
  /\ pure' = [pure EXCEPT !.done = TRUE, !.out = msgpackMarshal(pure.val, pure.ty)]
  /\ UNCHANGED <<adapter, nop>>

\* no error: the bytes become &tfprotov5.DynamicValue{MsgPack: mp}, which is
\* what decodeDynamicValue gets when the value comes back
DynamicValue_MsgPack ==
  /\ pure.op = "msgpack.Marshal"
  /\ pure.done
  /\ pure.out.err = NoErr
  /\ pure' = [op |-> "decodeDynamicValue", v |-> DV(pure.out.bytes, << >>),
               ty |-> pure.ty, of |-> pure.val, done |-> FALSE, out |-> Nothing]
  /\ UNCHANGED <<adapter, nop>>

NextPure ==
  \/ grpcErr_eval
  \/ decodeDynamicValue_eval
  \/ msgpackMarshal_eval
  \/ DynamicValue_MsgPack

SpecPure == InitPure /\ [][NextPure]_vars

\* ---------------------------------------------------------------------------
\* Properties
\* ---------------------------------------------------------------------------
IsRead(p) == frame[p].r.op = "ReadResource"
IsImport(p) == frame[p].r.op = "ImportResourceState"
ServerInvoked(p) == frame[p].protoResp # Nothing

\* C1: of the callers that are in getSchema at the same time at most one goes
\* on to invoke GetSchema, GetSchema is invoked once in total, and all getSchema
\* calls return the same snapshot.
C1_SingleFetch ==
  /\ \A p, q \in Procs :
       (frame[p].pc = "getSchema_fetch" /\ frame[q].pc = "getSchema_fetch") => p = q
  /\ fetchCount <= 1
  /\ Cardinality(gsResults) <= 1

\* C2: once a getSchema call has returned, the stored snapshot is populated
\* and it is the snapshot every getSchema call has returned.
C2_PopulatedAfterFirstReturn ==
  gsResults # {} => (~schemas.Provider.Block.isNil /\ gsResults = {schemas})

\* the mutex is held only between Lock and the check of the stored snapshot:
\* no goroutine holds it while it calls GetSchema, after it has returned, or
\* after it has panicked
MutexOnlyAroundCheck ==
  /\ mu \in Procs => frame[mu].pc = "getSchema_locked"
  /\ \A p \in Procs : frame[p].pc = "getSchema_fetch" => mu # p

\* C3: getSchema never calls GetSchema while it holds the mutex, it releases
\* the mutex on every path, and every goroutine that waits for the mutex gets
\* it.
C3_FetchOutsideLock ==
  /\ []MutexOnlyAroundCheck
  /\ \A p \in Procs :
       (frame[p].pc = "getSchema_lock") ~> (frame[p].pc # "getSchema_lock")

\* a goroutine is in the call of GetSchema while another one holds the mutex
C3_Witness ==
  \E p, q \in Procs :
    /\ p # q
    /\ frame[p].pc = "getSchema_fetch"
    /\ mu = q

C5_ReadTransportError ==
  \A p \in Procs :
    (IsRead(p) /\ ServerInvoked(p) /\ frame[p].protoResp.err # NoErr) =>
      /\ frame[p].pc = "done"
      /\ frame[p].resp.Diagnostics = grpcErr(frame[p].protoResp.err, "ReadResource", TRUE)
      /\ Len(frame[p].resp.Diagnostics) = 1
      /\ frame[p].resp.Diagnostics[1].severity = "Error"
      /\ frame[p].protoResp.err.code = "Unavailable" =>
           frame[p].resp.Diagnostics[1].summary = "Plugin did not respond"
      /\ frame[p].resp.NewState = NilVal
      /\ frame[p].resp.Private = << >>
      /\ frame[p].decodeErr = NoErr

C5_Witness ==
  \E p \in Procs :
    /\ IsRead(p)
    /\ frame[p].pc = "done"
    /\ ServerInvoked(p)
    /\ frame[p].protoResp.err.code = "Unavailable"

\* C6: a name that is not among the snapshot's resource types halts the call:
\* ReadResource then has not invoked the server and has no response, and
\* ImportResourceState returns no resource of such a name.
C6_UnknownTypeHalts ==
  \A p \in Procs :
    /\ (IsRead(p) /\ frame[p].schema # Nothing
        /\ frame[p].r.TypeName \notin DOMAIN frame[p].schema.ResourceTypes) =>
         /\ frame[p].pc = "panicked"
         /\ frame[p].panic = "unknown resource type " \o frame[p].r.TypeName
         /\ ~ServerInvoked(p)
         /\ frame[p].resp = ZeroReadResponse
    /\ (IsImport(p) /\ frame[p].schema # Nothing /\ frame[p].pc # "panicked") =>
         \A i \in 1..Len(frame[p].resp.ImportedResources) :
           frame[p].resp.ImportedResources[i].TypeName
             \in DOMAIN frame[p].schema.ResourceTypes

\* ReadResource of an undeclared name against a populated snapshot
C6_Witness ==
  \E p \in Procs :
    /\ IsRead(p)
    /\ frame[p].pc = "panicked"
    /\ frame[p].r.TypeName = "ghost"
    /\ frame[p].schema # Nothing
    /\ "widget" \in DOMAIN frame[p].schema.ResourceTypes

\* C7: a fetch that reports an error diagnostic is never returned by
\* getSchema; the call panics.
C7_FetchErrorHalts ==
  /\ \A s \in gsResults : ~HasErrors(s.Diagnostics)
  /\ \A p \in Procs :
       /\ frame[p].schema # Nothing => ~HasErrors(frame[p].schema.Diagnostics)
       /\ (frame[p].fetched # Nothing /\ HasErrors(frame[p].fetched.Diagnostics)) =>
            (frame[p].pc = "panicked" /\ frame[p].panic = "schema error")

C7_Witness ==
  \E p \in Procs :
    /\ frame[p].pc = "panicked"
    /\ frame[p].panic = "schema error"
    /\ frame[p].fetched # Nothing
    /\ HasErrors(frame[p].fetched.Diagnostics)

\* C8: ReadResource of a type the provider declares does not halt; when the
\* server's read succeeds without diagnostics and with a decodable state, the
\* response carries that state decoded and no diagnostics.
C8_ReadDeclaredType ==
  \A p \in Procs :
    (IsRead(p) /\ frame[p].r.TypeName \in DOMAIN ProviderResourceTypes) =>
      /\ frame[p].pc # "panicked"
      /\ (frame[p].pc = "done" /\ ServerInvoked(p) /\ frame[p].protoResp.err = NoErr
          /\ frame[p].protoResp.Diagnostics = << >> /\ frame[p].decodeErr = NoErr) =>
           /\ frame[p].resp.Diagnostics = << >>
           /\ frame[p].resp.NewState =
                decodeDynamicValue(frame[p].protoResp.NewState,
                  ImpliedType(ProviderResourceTypes[frame[p].r.TypeName].Block)).val

\* C9: the request sent to the server's read carries a provider-meta value
\* exactly when the snapshot has a provider-meta block, and then it is the
\* request's meta value encoded against that block's type.
C9_ProviderMetaIffSchema ==
  \A p \in Procs :
    (IsRead(p) /\ frame[p].protoReq # Nothing) =>
      /\ ~frame[p].protoReq.ProviderMeta.isNil
           <=> ~frame[p].schema.ProviderMeta.Block.isNil
      /\ ~frame[p].protoReq.ProviderMeta.isNil =>
           frame[p].protoReq.ProviderMeta.MsgPack =
             msgpackMarshal(frame[p].r.ProviderMeta,
                            ImpliedType(frame[p].schema.ProviderMeta.Block)).bytes

\* a request went out without provider-meta: there is no provider-meta block
C9_Witness ==
  \E p \in Procs :
    /\ IsRead(p)
    /\ frame[p].protoReq # Nothing
    /\ frame[p].protoReq.ProviderMeta.isNil
    /\ frame[p].schema.ProviderMeta.Block.isNil

\* C10: an import whose server call succeeded and whose entries all decoded
\* returns one resource per entry, in order, each with the entry's type name
\* and the entry's state decoded against the schema of that type name.
C10_ImportPerEntry ==
  \A p \in Procs :
    (IsImport(p) /\ frame[p].pc = "done" /\ frame[p].protoResp.err = NoErr
     /\ frame[p].decodeErr = NoErr) =>
      /\ Len(frame[p].resp.ImportedResources) = Len(frame[p].protoResp.ImportedResources)
      /\ \A i \in 1..Len(frame[p].protoResp.ImportedResources) :
           LET e == frame[p].protoResp.ImportedResources[i]
               res == frame[p].resp.ImportedResources[i]
           IN /\ res.TypeName = e.TypeName
              /\ res.State =
                   decodeDynamicValue(e.State,
                     ImpliedType(frame[p].schema.ResourceTypes[e.TypeName].Block)).val

\* two resources of different types returned, one not of the request's type
C10_Witness ==
  \E p \in Procs :
    /\ IsImport(p)
    /\ frame[p].pc = "done"
    /\ frame[p].decodeErr = NoErr
    /\ Len(frame[p].resp.ImportedResources) = 2
    /\ frame[p].resp.ImportedResources[1].TypeName = "gadget"
    /\ frame[p].resp.ImportedResources[2].TypeName = "widget"
    /\ frame[p].r.TypeName = "widget"

\* C11: private blobs are relayed unchanged: the request the server's read
\* receives carries the caller's private blob, a read that succeeded and
\* decoded returns the private blob of the server's reply, and every imported
\* resource carries the private blob of the entry it comes from.
C11_PrivateRelayed ==
  \A p \in Procs :
    /\ (IsRead(p) /\ frame[p].protoReq # Nothing) =>
         frame[p].protoReq.Private = frame[p].r.Private
    /\ (IsRead(p) /\ frame[p].pc = "done" /\ ServerInvoked(p)
        /\ frame[p].protoResp.err = NoErr /\ frame[p].decodeErr = NoErr) =>
         frame[p].resp.Private = frame[p].protoResp.Private
    /\ (IsImport(p) /\ frame[p].protoResp.err = NoErr) =>
         \A i \in 1..Len(frame[p].resp.ImportedResources) :
           frame[p].resp.ImportedResources[i].Private =
             frame[p].protoResp.ImportedResources[i].Private

\* a read that relayed one blob to the server and another one back
C11_Witness ==
  \E p \in Procs :
    /\ IsRead(p)
    /\ frame[p].pc = "done"
    /\ frame[p].protoReq # Nothing
    /\ frame[p].protoReq.Private = <<7>>
    /\ frame[p].protoResp.err = NoErr
    /\ frame[p].decodeErr = NoErr
    /\ frame[p].resp.Private = <<8>>

IsPrefix(a, b) == Len(a) <= Len(b) /\ \A i \in 1..Len(a) : a[i] = b[i]

\* the diagnostics of a call whose server call succeeded start with the
\* server's protocol diagnostics, in the server's order, and a decode failure
\* is the one diagnostic after them
DiagnosticsInOrder ==
  \A p \in Procs :
    (frame[p].pc \in {"getSchema_lock", "getSchema_locked", "getSchema_fetch", "done"}
     /\ ServerInvoked(p) /\ frame[p].protoResp.err = NoErr) =>
      LET pds == frame[p].protoResp.Diagnostics
          diags == frame[p].resp.Diagnostics
      IN /\ Len(diags) >= Len(pds)
         /\ \A i \in 1..Len(pds) : diags[i].summary = pds[i].Summary
         /\ frame[p].decodeErr = NoErr => Len(diags) = Len(pds)
         /\ frame[p].decodeErr # NoErr =>
              /\ Len(diags) = Len(pds) + 1
              /\ diags[Len(diags)].summary = frame[p].decodeErr.msg

\* a step inside a call keeps the diagnostics the response already has, in
\* their places
DiagnosticsGrow ==
  \A p \in Procs :
    (frame[p].pc # "idle" /\ frame'[p].pc # "idle") =>
      IsPrefix(frame[p].resp.Diagnostics, frame'[p].resp.Diagnostics)

\* C12: within one call the diagnostics of the response only grow, the
\* server's protocol diagnostics are there in the server's order, and the
\* diagnostic of a decode failure comes after all of them.
C12_DiagnosticsAppendOnly ==
  /\ []DiagnosticsInOrder
  /\ [][DiagnosticsGrow]_vars

\* an import that had two protocol diagnostics when an entry failed to decode
C12_Witness ==
  \E p \in Procs :
    /\ IsImport(p)
    /\ frame[p].pc = "done"
    /\ frame[p].decodeErr # NoErr
    /\ Len(frame[p].protoResp.Diagnostics) = 2
    /\ Len(frame[p].resp.Diagnostics) = 3

\* the summary the status code stands for
SummaryOfCode(code) ==
  CASE code = "Unavailable" -> "Plugin did not respond"
    [] code = "Canceled" -> "Request cancelled"
    [] code = "Unimplemented" -> "Unsupported plugin method"
    [] OTHER -> "Plugin error"

\* the detail for the status code and the name of the calling method
DetailOfCode(code, name) ==
  CASE code = "Unavailable" ->
         "The plugin encountered an error, and failed to respond to the "
         \o name \o " call. The plugin logs may contain more details."
    [] code = "Canceled" -> "The " \o name \o " request was cancelled."
    [] code = "Unimplemented" ->
         "The " \o name \o " method is not supported by this plugin."
    [] OTHER -> "The plugin returned an unexpected error from " \o name \o ": "

NamedCodes == {"Unavailable", "Canceled", "Unimplemented"}

GrpcErrReturned == pure.op = "grpcErr" /\ pure.done

\* nil gives no diagnostic, any other error one error diagnostic with the
\* summary of its status code
GrpcErrOnePerError ==
  GrpcErrReturned =>
    IF pure.err = NoErr
      THEN pure.out = << >>
      ELSE /\ Len(pure.out) = 1
           /\ pure.out[1].severity = "Error"
           /\ pure.out[1].summary = SummaryOfCode(pure.err.code)

\* C13 as claimed: besides the above, every error with the same status code
\* gets, from the same method, the same diagnostic.
C13_GrpcErrByCodeAndName ==
  /\ GrpcErrOnePerError
  /\ GrpcErrReturned =>
       \A e \in GrpcErrErrors :
         e.code = pure.err.code => grpcErr(e, pure.method, TRUE) = pure.out

\* C13 as amended: nil gives no diagnostic; any other error gives one error
\* diagnostic whose summary is that of the status code and whose detail names
\* the calling method; for the three named codes the diagnostic is the same
\* for every error of that code, for any other code the detail ends with the
\* text of the error.
C13_GrpcErrOneDiagnostic ==
  /\ GrpcErrOnePerError
  /\ (GrpcErrReturned /\ pure.err # NoErr) =>
       LET name == "provider.(*GRPCClient)." \o pure.method IN
       /\ pure.err.code \in NamedCodes =>
            /\ pure.out[1].detail = DetailOfCode(pure.err.code, name)
            /\ \A e \in GrpcErrErrors :
                 e.code = pure.err.code => grpcErr(e, pure.method, TRUE) = pure.out
       /\ pure.err.code \notin NamedCodes =>
            pure.out[1].detail = DetailOfCode(pure.err.code, name) \o pure.err.msg

\* a cancelled request translated for ImportResourceState
C13_Witness ==
  /\ GrpcErrReturned
  /\ pure.err.code = "Canceled"
  /\ pure.method = "ImportResourceState"
  /\ Len(pure.out) = 1
  /\ pure.out[1].summary = "Request cancelled"

DecodeReturned == pure.op = "decodeDynamicValue" /\ pure.done

\* C14: an absent Dynamic Value and one with both encodings empty decode to
\* the null value of the type, with no error; non-empty MsgPack bytes are
\* decoded by msgpack.Unmarshal whatever the JSON bytes are; the JSON bytes
\* are decoded by ctyjson.Unmarshal only when there are no MsgPack bytes; the
\* error of the decoder that ran is the error returned.
C14_DecodeDispatch ==
  DecodeReturned =>
    LET v == pure.v
        ty == pure.ty
    IN
    /\ (v.isNil \/ (v.MsgPack = << >> /\ v.JSON = << >>)) =>
         pure.out = [val |-> NullVal(ty), err |-> NoErr]
    /\ (~v.isNil /\ v.MsgPack # << >>) =>
         pure.out = msgpackUnmarshal(v.MsgPack, ty)
    /\ (~v.isNil /\ v.MsgPack = << >> /\ v.JSON # << >>) =>
         pure.out = ctyjsonUnmarshal(v.JSON, ty)

\* both encodings present and decodable to different numbers: MsgPack wins
C14_Witness ==
  /\ DecodeReturned
  /\ pure.v = DV(<<4>>, JsonOne)
  /\ pure.ty = "number"
  /\ pure.out = [val |-> NumberVal(4), err |-> NoErr]

\* C18: a value that msgpack.Marshal encoded against a type, wrapped as the
\* MsgPack bytes of a Dynamic Value, decodes against that type to the same
\* value, with no error.
C18_RoundTrip ==
  (DecodeReturned /\ pure.of # Nothing) =>
    pure.out = [val |-> pure.of, err |-> NoErr]

\* a string of two bytes has made the round trip
C18_Witness ==
  /\ DecodeReturned
  /\ pure.of = StringVal("w1")
  /\ pure.v = DV(<<162, 119, 49>>, << >>)
  /\ pure.out.val = StringVal("w1")

\* the field f of a response holds no payload: x is the zero value of its type
NeutralField(f, x) ==
  CASE f \in {"Provider", "ProviderMeta"} -> x = Schema(NoBlock)
    [] f = "ResourceTypes" -> DOMAIN x = {}
    [] f = "LegacyTypeSystem" -> x = FALSE
    [] f \in {"PreparedConfig", "UpgradedState", "NewState", "PlannedState", "State"} ->
         x = NilVal
    [] OTHER -> x = << >>

\* the result of the last NopProvider method called is neutral
NopNeutral ==
  nop # NoCall =>
    IF nop.op \in {"Stop", "Close"}
      THEN nop.resp = NoErr
      ELSE /\ nop.resp.Diagnostics = << >>
           /\ \A f \in DOMAIN nop.resp : NeutralField(f, nop.resp[f])

\* a call of a NopProvider method leaves the client as it was: nothing more
\* served, the mutex and the snapshot untouched, every call in flight where
\* it was
NopLeavesClient ==
  nop' # nop =>
    UNCHANGED <<schemas, mu, frame, fetchCount, gsResults, ncalls, served>>

\* C15: every method of NopProvider returns a neutral response for every
\* request, invokes nothing on the server, leaves the mutex and the state of
\* the client alone; Stop can return in every state, whatever is in flight.
C15_NopNeutral ==
  /\ []NopNeutral
  /\ [][NopLeavesClient]_vars
  /\ [](ENABLED NopProvider_call("Stop", NoRequest))

\* Stop has returned while a call is inside getSchema with the mutex held
C15_Witness ==
  /\ nop # NoCall
  /\ nop.op = "Stop"
  /\ nop.resp = NoErr
  /\ mu = Caller
  /\ frame[Caller].pc = "getSchema_locked"

\* the methods of the client other than ReadResource and ImportResourceState
\* that take a request
OtherClientOps ==
  {"PlanResourceChange", "ApplyResourceChange", "Configure", "ReadDataSource",
   "UpgradeResourceState", "PrepareProviderConfig",
   "ValidateResourceTypeConfig", "ValidateDataSourceConfig"}

\* C16: once a method of the client other than ReadResource and
\* ImportResourceState has returned, the server's operation of that name has
\* been invoked.
C16_OtherOpsReachServer ==
  (nop # NoCall /\ nop.op \in OtherClientOps) => nop.op \in served

\* what getSchema returns to a call that runs with no other call around
Alone_getSchema == IF ~schemas.Provider.Block.isNil THEN schemas ELSE GetSchema

\* the frame ReadResource(r) ends with when it runs alone and the server
\* answers `reply`
Alone_ReadResource(r, reply) ==
  LET f1 == ReadResource_resSchema(ReadResource_begin(r), Alone_getSchema) IN
  IF f1.pc = "panicked" THEN f1 ELSE ReadResource_rest(f1, Alone_getSchema, reply)

RECURSIVE Alone_ImportEntries(_)
Alone_ImportEntries(f) ==
  IF f.pc \in {"done", "panicked"}
    THEN f
    ELSE Alone_ImportEntries(ImportResourceState_entry(f, Alone_getSchema))

\* the same for ImportResourceState(r)
Alone_ImportResourceState(r, reply) ==
  Alone_ImportEntries(ImportResourceState_begin(r, reply))

\* the reply the server gave to the call of p, if it was invoked
ReplyOf(p) ==
  IF ServerInvoked(p) THEN frame[p].protoResp ELSE [err |-> PlainErr("not invoked")]

\* C17: whatever the interleaving, a call ends with the response, or the
\* halt, that the same call with the same reply of the server ends with when
\* it runs alone.
C17_ResponseAsAlone ==
  \A p \in Procs :
    frame[p].pc \in {"done", "panicked"} =>
      LET alone == IF IsRead(p)
                     THEN Alone_ReadResource(frame[p].r, ReplyOf(p))
                     ELSE Alone_ImportResourceState(frame[p].r, ReplyOf(p))
      IN /\ frame[p].pc = alone.pc
         /\ frame[p].panic = alone.panic
         /\ frame[p].resp = alone.resp

\* an import has returned two resources while a read of another goroutine is
\* between its two getSchema calls
C17_Witness ==
  \E p, q \in Procs :
    /\ p # q
    /\ IsRead(p)
    /\ frame[p].caller = "ReadResource.getProviderMetaSchema"
    /\ IsImport(q)
    /\ frame[q].pc = "done"
    /\ Len(frame[q].resp.ImportedResources) = 2

\* C19 as claimed: a call whose server operation has been invoked has
\* obtained the snapshot from getSchema before.
C19_ServerAfterSnapshot ==
  \A p \in Procs : ServerInvoked(p) => frame[p].schema # Nothing

\* C19 as amended: ReadResource invokes the server only after getSchema has
\* returned the snapshot to it, for the resource schema and for the
\* provider-meta schema; ImportResourceState invokes the server first and has
\* obtained the snapshot from getSchema before it decodes an entry.
C19_ReadAfterSnapshot ==
  \A p \in Procs :
    /\ (IsRead(p) /\ ServerInvoked(p)) =>
         /\ frame[p].schema # Nothing
         /\ frame[p].schema \in gsResults
         /\ frame[p].pc = "done"
    /\ (IsImport(p) /\ frame[p].pc # "idle") => ServerInvoked(p)
    /\ (IsImport(p) /\ (frame[p].resp.ImportedResources # << >>
                        \/ frame[p].decodeErr # NoErr)) =>
         /\ frame[p].schema # Nothing
         /\ frame[p].schema \in gsResults

\* a read whose request reached the server, after the snapshot
C19_Witness ==
  \E p \in Procs :
    /\ IsRead(p)
    /\ ServerInvoked(p)
    /\ frame[p].protoResp.err = NoErr
    /\ frame[p].schema # Nothing
    /\ "widget" \in DOMAIN frame[p].schema.ResourceTypes

\* an import that has returned, the server's call without transport error
\* and no entry failing to decode
ImportSucceeded(p) ==
  /\ IsImport(p)
  /\ frame[p].pc = "done"
  /\ frame[p].protoResp.err = NoErr
  /\ frame[p].decodeErr = NoErr

\* C20 as claimed: such an import has no diagnostics in its response.
C20_ImportNoDiagnostics ==
  \A p \in Procs : ImportSucceeded(p) => frame[p].resp.Diagnostics = << >>

\* C20 as amended: such an import has no diagnostics in its response when the
\* server reported none.
C20_ImportCleanNoDiagnostics ==
  \A p \in Procs :
    (ImportSucceeded(p) /\ frame[p].protoResp.Diagnostics = << >>) =>
      frame[p].resp.Diagnostics = << >>

\* two entries imported, nothing reported
C20_Witness ==
  \E p \in Procs :
    /\ ImportSucceeded(p)
    /\ frame[p].protoResp.Diagnostics = << >>
    /\ Len(frame[p].resp.ImportedResources) = 2
    /\ frame[p].resp.Diagnostics = << >>

====
